---- MODULE Spec2Model ----
(***************************************************************************)
(* The detection-aggregation pipeline of scalp-comparisor: the streaming   *)
(* POST handler, the confidence descent of analyzeImageWithRoboflow, the   *)
(* response normalisation of extractData, the region aggregation, and the  *)
(* Home component of the page that posts the images and reads the stream.  *)
(*                                                                         *)
(* Number representations                                                  *)
(*   - the descent's `confidence` is an IEEE-754 double.  With             *)
(*     U = 3602879701896397 (the double 0.1 is U * 2^-55) a double is the  *)
(*     record [k, e] standing for (k*U + e) * 2^-55, |e| small.  0.5 is    *)
(*     2^54 * 2^-55 = 5U - 1.  U mod 4 = 1 and U mod 8 = 5.                *)
(*   - a prediction's confidence is in thousandths (856 is 0.856).         *)
(*   - coordinates and extents of predictions are doubles; the model     *)
(*     takes them on a grid of 1/SubPixel pixel, where every sum, product  *)
(*     and halving of the aggregation is exact, and writes them as         *)
(*     integer numbers of grid units.  totalArea is kept doubled, in       *)
(*     squared units (totalArea2); minX .. maxY doubled, in units; the     *)
(*     reported bounding box in quarter units.  Image dimensions and the   *)
(*     reported area are in pixels, areaPercentage in hundredths of a      *)
(*     percent.                                                            *)
(*   - durations (performance.now()) are not modelled.                     *)
(***************************************************************************)
EXTENDS Integers, Sequences, FiniteSets, TLC

VARIABLES
    req,        \* the request: form fields and the environment's API key
    pc,         \* where the handler's start(controller) is suspended
    steps,      \* the handler's steps array
    frames,     \* the frames enqueued on the stream, in order
    closed,     \* controller.close() was called
    task,       \* the two analyzeImageWithRoboflow invocations
    dropped,    \* history: sendEvent calls that threw on the closed controller
    call,       \* one call of a function on its own, with what it returned; or
                \* the detector's responses to the handler so far
    page        \* the Home component: its state and its startAnalysis runs

vars == <<req, pc, steps, frames, closed, task, dropped, call, page>>

\* Largest number of predictions in one detector response.
MaxPreds == 2

\* Grid units per pixel: coordinates are multiples of half a pixel.
SubPixel == 2

\* n pixels, in grid units.
Px(n) == n * SubPixel

Images == {"before", "after"}

Other(i) == IF i = "before" THEN "after" ELSE "before"

\* The step of the before image, whichever invocation asks.
AnalyzeStepBefore(i) == "analyze_before"

AnalyzeStep(i) == IF i = "before" THEN "analyze_before" ELSE "analyze_after"

Abs(n) == IF n < 0 THEN -n ELSE n

Max(a, b) == IF a > b THEN a ELSE b

Min(a, b) == IF a < b THEN a ELSE b

(***************************************************************************)
(* IEEE-754 doubles of the descent.                                        *)
(***************************************************************************)
Dbl(k, e) == [k |-> k, e |-> e]

\* let confidence = 0.5
InitialConfidence == Dbl(5, -1)

\* The units (2^-55) of one ulp of d: 4 in [0.5,1), 2 in [0.25,0.5), and at
\* most 1 below 0.25, where every multiple of 2^-55 in reach is a double.
UlpUnits(d) ==
    IF d.k > 5 \/ (d.k = 5 /\ d.e >= -1) THEN 4
    ELSE IF d.k >= 3 THEN 2
    ELSE 1

\* Round the exact value d to a double: to nearest, ties to the even mantissa.
RoundToDouble(d) ==
    LET m == UlpUnits(d)
        r == (d.k + d.e) % m            \* (k*U + e) mod m, as U mod 4 = 1
        down == Dbl(d.k, d.e - r)
        up == Dbl(d.k, d.e - r + m)
        downEven == ((IF m = 4 THEN 5 * d.k ELSE d.k) + down.e) % (2 * m) = 0
    IN  IF r = 0 THEN d
        ELSE IF 2 * r < m THEN down
        ELSE IF 2 * r > m THEN up
        ELSE IF downEven THEN down ELSE up

\* confidence -= 0.1
SubTenth(c) == RoundToDouble(Dbl(c.k - 1, c.e))

\* A loop test of `confidence > 0`.
GeqTenthLoose(c) == c.k > 0 \/ (c.k = 0 /\ c.e > 0)

\* A loop test of `confidence > 0.1` in exact decimal arithmetic.
GeqTenthStrict(c) == c.k > 1

\* confidence >= 0.1
GeqTenth(c) == c.k > 1 \/ (c.k = 1 /\ c.e >= 0)

\* Math.round(confidence * 100): the percentage sent to the detect API and,
\* divided by ten, what confidence.toFixed(1) logs.  100*(k*U+e)*2^-55 is
\* 10k + (100e + 20k)/(10U - 2), within 1e-13 of 10k.
Percent(c) == 10 * c.k

(***************************************************************************)
(* Model configuration.                                                    *)
(***************************************************************************)
DEFAULT_MODEL == "scalp-density-detector"

ModelIds == {"scalp-density-detector", "nivel-de-cabelo"}

MODELS ==
    [id \in ModelIds |->
        IF id = "scalp-density-detector"
        THEN [id |-> id, type |-> "detect", prompt |-> ""]
        ELSE [id |-> id, type |-> "workflow", prompt |-> "bald spot"]]

\* (formData.get("model") as string) || DEFAULT_MODEL, then
\* MODELS[modelId] || MODELS[DEFAULT_MODEL]
SelectModel(field) ==
    LET modelId == IF field = "" THEN DEFAULT_MODEL ELSE field
    IN  IF modelId \in ModelIds THEN MODELS[modelId] ELSE MODELS[DEFAULT_MODEL]

\* String.prototype.toLowerCase on the class labels in reach.
toLowerCase(s) ==
    CASE s = "Bald Spot" -> "bald spot"
      [] s = "BALD SPOT" -> "bald spot"
      [] s = "Hair" -> "hair"
      [] OTHER -> s

\* model.prompt || "bald spot"
TargetLabel(model) == IF model.prompt = "" THEN "bald spot" ELSE model.prompt

(***************************************************************************)
(* Predictions and detector responses.                                     *)
(***************************************************************************)
Pt(x, y) == [x |-> x, y |-> y]

BoxPred(class, confidence, x, y, width, height) ==
    [class |-> class, confidence |-> confidence, x |-> x, y |-> y,
     width |-> width, height |-> height, hasPoints |-> FALSE, points |-> <<>>]

PolyPred(class, confidence, points) ==
    [class |-> class, confidence |-> confidence, x |-> 0, y |-> 0,
     width |-> 0, height |-> 0, hasPoints |-> TRUE, points |-> points]

PredUniverse ==
    << BoxPred("Bald Spot", 856, Px(50), Px(40), Px(20), Px(10)),
       PolyPred("bald spot", 432,
                <<Pt(Px(10), Px(10)), Pt(Px(30), Px(10)), Pt(Px(10), Px(20))>>),
       BoxPred("hair", 900, Px(70), Px(70), Px(30), Px(30)) >>

\* The sequences of length at most n of indices into PredUniverse.
RECURSIVE IndexSeqsUpTo(_)
IndexSeqsUpTo(n) ==
    IF n = 0 THEN {<<>>}
    ELSE LET shorter == IndexSeqsUpTo(n - 1)
         IN  shorter \cup
             {Append(s, x) : s \in {q \in shorter : Len(q) = n - 1},
                             x \in DOMAIN PredUniverse}

\* One order for every multiset of predictions.
IsAscending(q) == \A j \in 1..(Len(q) - 1) : q[j] <= q[j + 1]

PredLists ==
    {[j \in DOMAIN q |-> PredUniverse[q[j]]] :
        q \in {r \in IndexSeqsUpTo(MaxPreds) : IsAscending(r)}}

NoImage == [width |-> 0, height |-> 0]

\* A detector response.  shape "root": {predictions, image}; shape "outputs":
\* {outputs: [{sam: {predictions, image}, mask_visualization}]}.
OkResponse(shape, predictions, image, mask) ==
    [status |-> "ok", shape |-> shape, predictions |-> predictions,
     image |-> image, mask_visualization |-> mask]

FailResponse(status) ==
    [status |-> status, shape |-> "root", predictions |-> <<>>,
     image |-> NoImage, mask_visualization |-> ""]

\* The responses a detector call may get: any prediction list without image
\* dimensions, the short lists with dimensions at the root or in the workflow
\* shape (with its mask), and the two failures.
Responses ==
    {OkResponse("root", ps, NoImage, "") : ps \in PredLists}
    \cup {OkResponse("root", ps, [width |-> 100, height |-> 80], "") :
            ps \in {q \in PredLists : Len(q) <= 1}}
    \cup {OkResponse("outputs", ps, [width |-> 200, height |-> 100], "mask") :
            ps \in {q \in PredLists : Len(q) <= 1}}
    \cup {FailResponse("http_error"), FailResponse("bad_json")}

(***************************************************************************)
(* Geometry.                                                               *)
(***************************************************************************)
RECURSIVE ShoelaceSum(_, _)
\* The loop of calculatePolygonArea from index i on: the signed sum of
\* points[i].x * points[j].y - points[j].x * points[i].y, j = (i + 1) % n.
ShoelaceSum(points, i) ==
    IF i > Len(points) THEN 0
    ELSE LET j == (i % Len(points)) + 1
         IN  points[i].x * points[j].y - points[j].x * points[i].y
             + ShoelaceSum(points, i + 1)

\* calculatePolygonArea on the grid, where its doubles are exact: the area
\* doubled, in squared units (Math.abs(area / 2) is Abs(sum) / 2).
calculatePolygonArea2(points) ==
    IF Len(points) < 3 THEN 0 ELSE Abs(ShoelaceSum(points, 1))

\* The largest power of two that is at most n (n >= 1).
RECURSIVE Pow2Floor(_)
Pow2Floor(n) == IF n < 2 THEN 1 ELSE 2 * Pow2Floor(n \div 2)

\* Math.ceil(v * 1.1) for v >= 0 pixels, v2 = 2 * v in grid units.  The double
\* 1.1 is 1.1 + 0.4 * 2^-52, so the product exceeds 11 * v / 10 by
\* v * 0.4 * 2^-52: when 11 * v / 10 is an integer N = 11 m (v = 10 m) the
\* excess is 4 m units of 2^-52 against an ulp of Pow2Floor(N) units, and the
\* product rounds above N (its ceiling is N + 1) exactly when
\* 8 m > Pow2Floor(N); a tie rounds to N, whose mantissa is even.  Otherwise
\* the fraction of 11 * v / 10 is at least 1 / (20 * SubPixel) and the ceiling
\* is the exact one.
CeilInflate(v2) ==
    LET d == 20 * SubPixel
    IN  IF v2 % d = 0
        THEN LET m == v2 \div d
                 N == 11 * m
             IN  IF m > 0 /\ 8 * m > Pow2Floor(N) THEN N + 1 ELSE N
        ELSE (11 * v2 + d - 1) \div d

(***************************************************************************)
(* Double arithmetic of calculatePolygonArea on arbitrary coordinates.     *)
(* A natural number is a sequence of limbs, least significant first; a     *)
(* double is [sign, m, e] standing for sign * m * 2^e with m a natural of  *)
(* exactly 53 bits, or zero.  Products and sums are computed exactly and   *)
(* rounded to nearest, ties to even (values stay far from the subnormal    *)
(* and overflow ranges).                                                   *)
(***************************************************************************)
\* The limb base, 2^12.
Limb == 4096

RECURSIVE Pow2(_)
Pow2(n) == IF n = 0 THEN 1 ELSE 2 * Pow2(n - 1)

RECURSIVE Carry(_, _, _)
\* The limbs of the number whose digits (of any size) are s[i..], plus c.
Carry(s, i, c) ==
    IF i > Len(s)
    THEN IF c = 0 THEN <<>> ELSE <<c % Limb>> \o Carry(s, i, c \div Limb)
    ELSE <<(s[i] + c) % Limb>> \o Carry(s, i + 1, (s[i] + c) \div Limb)

Digit(a, i) == IF i \in DOMAIN a THEN a[i] ELSE 0

BigAdd(a, b) ==
    Carry([i \in 1..Max(Len(a), Len(b)) |-> Digit(a, i) + Digit(b, i)], 1, 0)

RECURSIVE Borrow(_, _, _, _)
\* a - b for a >= b.
Borrow(a, b, i, c) ==
    IF i > Len(a) THEN <<>>
    ELSE LET v == a[i] - Digit(b, i) - c
         IN  <<IF v < 0 THEN v + Limb ELSE v>>
             \o Borrow(a, b, i + 1, IF v < 0 THEN 1 ELSE 0)

BigSub(a, b) == Borrow(a, b, 1, 0)

RECURSIVE ConvSum(_, _, _, _)
\* The sum of a[i] * b[k + 1 - i] from i on.
ConvSum(a, b, k, i) ==
    IF i > Len(a) THEN 0
    ELSE Digit(a, i) * Digit(b, k + 1 - i) + ConvSum(a, b, k, i + 1)

BigMul(a, b) ==
    IF Len(a) = 0 \/ Len(b) = 0 THEN <<>>
    ELSE Carry([k \in 1..(Len(a) + Len(b) - 1) |-> ConvSum(a, b, k, 1)], 1, 0)

RECURSIVE BigCmpFrom(_, _, _)
\* -1, 0, 1 as a < b, a = b, a > b, comparing limbs i, i - 1, ..., 1.
BigCmpFrom(a, b, i) ==
    IF i = 0 THEN 0
    ELSE IF Digit(a, i) < Digit(b, i) THEN -1
    ELSE IF Digit(a, i) > Digit(b, i) THEN 1
    ELSE BigCmpFrom(a, b, i - 1)

BigCmp(a, b) == BigCmpFrom(a, b, Max(Len(a), Len(b)))

RECURSIVE IntBitLen(_)
IntBitLen(n) == IF n = 0 THEN 0 ELSE 1 + IntBitLen(n \div 2)

RECURSIVE BitLenFrom(_, _)
BitLenFrom(a, i) ==
    IF i = 0 THEN 0
    ELSE IF a[i] # 0 THEN 12 * (i - 1) + IntBitLen(a[i])
    ELSE BitLenFrom(a, i - 1)

\* The number of bits of a, 0 for zero.
BitLen(a) == BitLenFrom(a, Len(a))

\* Bit k of a, counted from 0.
Bit(a, k) == (Digit(a, (k \div 12) + 1) \div Pow2(k % 12)) % 2

\* The bits of a below bit k are all zero.
LowBitsZero(a, k) ==
    /\ \A i \in 1..(k \div 12) : Digit(a, i) = 0
    /\ Digit(a, (k \div 12) + 1) % Pow2(k % 12) = 0

ShiftLeft(a, k) ==
    Carry([i \in 1..(Len(a) + (k \div 12)) |->
                IF i <= k \div 12 THEN 0 ELSE a[i - (k \div 12)] * Pow2(k % 12)],
          1, 0)

ShiftRight(a, k) ==
    LET q == k \div 12
        r == k % 12
    IN  [i \in 1..Max(Len(a) - q, 0) |->
            (Digit(a, i + q) \div Pow2(r))
            + (Digit(a, i + q + 1) % Pow2(r)) * Pow2(12 - r)]

\* a with exactly five limbs (a < 2^60).
FiveLimbs(a) == [i \in 1..5 |-> Digit(a, i)]

Zero == [sign |-> 1, m |-> <<0, 0, 0, 0, 0>>, e |-> 0]

IsZero(d) == d.m = <<0, 0, 0, 0, 0>>

\* The double nearest to sign * n * 2^e, ties to the even mantissa.
Round(sign, n, e) ==
    LET len == BitLen(n)
        k == len - 53
        q == ShiftRight(n, k)
        up == Bit(n, k - 1) = 1 /\ (~LowBitsZero(n, k - 1) \/ Bit(q, 0) = 1)
        q1 == IF up THEN BigAdd(q, <<1>>) ELSE q
    IN  IF len = 0 THEN Zero
        ELSE IF k <= 0
        THEN [sign |-> sign, m |-> FiveLimbs(ShiftLeft(n, -k)), e |-> e + k]
        ELSE IF BitLen(q1) = 54
        THEN [sign |-> sign, m |-> FiveLimbs(ShiftRight(q1, 1)), e |-> e + k + 1]
        ELSE [sign |-> sign, m |-> FiveLimbs(q1), e |-> e + k]

FMul(a, b) ==
    IF IsZero(a) \/ IsZero(b) THEN Zero
    ELSE Round(a.sign * b.sign, BigMul(a.m, b.m), a.e + b.e)

FNeg(a) == IF IsZero(a) THEN Zero ELSE [a EXCEPT !.sign = -@]

FAbs(a) == [a EXCEPT !.sign = 1]

FAdd(a, b) ==
    IF IsZero(a) THEN b
    ELSE IF IsZero(b) THEN a
    ELSE LET e == Min(a.e, b.e)
             x == ShiftLeft(a.m, a.e - e)
             y == ShiftLeft(b.m, b.e - e)
             c == BigCmp(x, y)
         IN  IF a.sign = b.sign THEN Round(a.sign, BigAdd(x, y), e)
             ELSE IF c = 0 THEN Zero
             ELSE IF c > 0 THEN Round(a.sign, BigSub(x, y), e)
             ELSE Round(b.sign, BigSub(y, x), e)

FSub(a, b) == FAdd(a, FNeg(b))

\* a / 2
FHalf(a) == IF IsZero(a) THEN Zero ELSE [a EXCEPT !.e = @ - 1]

RECURSIVE DivSmallFrom(_, _, _, _)
\* The quotient limbs (most significant first) and the remainder of a / d,
\* from limb i down, with r carried in.
DivSmallFrom(a, d, i, r) ==
    IF i = 0 THEN [q |-> <<>>, r |-> r]
    ELSE LET v == r * Limb + a[i]
             rest == DivSmallFrom(a, d, i - 1, v % d)
         IN  [q |-> <<v \div d>> \o rest.q, r |-> rest.r]

Reverse(s) == [i \in 1..Len(s) |-> s[Len(s) + 1 - i]]

\* The double a JSON number n / d parses to (n, d small integers, d > 0):
\* n * 2^72 / d is cut to an integer and a last bit set for the part cut off.
FromRatio(n, d) ==
    LET div == DivSmallFrom(ShiftLeft(<<Abs(n) % Limb, Abs(n) \div Limb>>, 72),
                            d, 8, 0)
        cut == BigAdd(ShiftLeft(Reverse(div.q), 1),
                      <<IF div.r = 0 THEN 0 ELSE 1>>)
    IN  Round(IF n < 0 THEN -1 ELSE 1, cut, -73)

RECURSIVE BigToInt(_, _)
\* The value of the limbs of a from limb i on (below 2^31).
BigToInt(a, i) ==
    IF i > Len(a) THEN 0 ELSE a[i] + Limb * BigToInt(a, i + 1)

\* Math.round(d): the integer nearest to d, a half rounding towards +Infinity.
MathRound(d) ==
    LET k == -d.e
        q == BigToInt(ShiftRight(d.m, k), 1)
        half == Bit(d.m, k - 1) = 1
        more == half /\ ~LowBitsZero(d.m, k - 1)
    IN  IF IsZero(d) THEN 0
        ELSE IF k <= 0 THEN d.sign * BigToInt(ShiftLeft(d.m, -k), 1)
        ELSE IF d.sign = 1 THEN q + (IF half THEN 1 ELSE 0)
        ELSE -(q + (IF more THEN 1 ELSE 0))

RECURSIVE ShoelaceLoop(_, _, _)
\* The loop of calculatePolygonArea from index i on, in doubles:
\* area += points[i].x * points[j].y; area -= points[j].x * points[i].y
ShoelaceLoop(points, i, area) ==
    IF i > Len(points) THEN area
    ELSE LET j == (i % Len(points)) + 1
             added == FAdd(area, FMul(points[i].x, points[j].y))
         IN  ShoelaceLoop(points, i + 1,
                          FSub(added, FMul(points[j].x, points[i].y)))

\* The function without Math.abs.
calculatePolygonAreaSigned(points) ==
    IF Len(points) < 3 THEN Zero ELSE FHalf(ShoelaceLoop(points, 1, Zero))

\* calculatePolygonArea on points whose coordinates are doubles.
calculatePolygonArea(points) ==
    IF Len(points) < 3 THEN Zero ELSE FAbs(FHalf(ShoelaceLoop(points, 1, Zero)))

(***************************************************************************)
(* extractData                                                             *)
(***************************************************************************)
RECURSIVE InferPoints(_, _, _)
\* for (const pt of pred.points): the running maxima, doubled.
InferPoints(points, i, acc) ==
    IF i > Len(points) THEN acc
    ELSE InferPoints(points, i + 1,
            [w2 |-> Max(acc.w2, 2 * points[i].x),
             h2 |-> Max(acc.h2, 2 * points[i].y)])

RECURSIVE InferDims(_, _, _)
\* for (const pred of predictions): the running maxima, doubled.
InferDims(predictions, i, acc) ==
    IF i > Len(predictions) THEN acc
    ELSE LET pred == predictions[i]
             next ==
                IF pred.hasPoints THEN InferPoints(pred.points, 1, acc)
                ELSE IF pred.x # 0 /\ pred.width # 0
                THEN [w2 |-> Max(acc.w2, 2 * pred.x + pred.width),
                      h2 |-> Max(acc.h2, 2 * pred.y + pred.height)]
                ELSE acc
         IN  InferDims(predictions, i + 1, next)

extractData(result) ==
    LET fromSam == result.shape = "outputs"
                   /\ result.image.width # 0 /\ result.image.height # 0
        w0 == IF fromSam THEN result.image.width ELSE 0
        h0 == IF fromSam THEN result.image.height ELSE 0
        maskImage == IF result.shape = "outputs" THEN result.mask_visualization ELSE ""
        predictions == result.predictions
        \* if (imageWidth === 0 && result.image)
        fromRoot == w0 = 0 /\ result.shape = "root" /\ result.image # NoImage
        w1 == IF fromRoot THEN result.image.width ELSE w0
        h1 == IF fromRoot THEN result.image.height ELSE h0
        \* if (imageWidth === 0 && predictions.length > 0)
        infer == w1 = 0 /\ Len(predictions) > 0
        inferred == InferDims(predictions, 1, [w2 |-> 2 * w1, h2 |-> 2 * h1])
    IN  [predictions |-> predictions,
         maskImage |-> maskImage,
         imageWidth |-> IF infer THEN CeilInflate(inferred.w2) ELSE w1,
         imageHeight |-> IF infer THEN CeilInflate(inferred.h2) ELSE h1]

(***************************************************************************)
(* The class filter of the descent.                                        *)
(***************************************************************************)
\* p.class?.toLowerCase() === (model.prompt || "bald spot").toLowerCase()
ClassMatches(p, model) == toLowerCase(p.class) = toLowerCase(TargetLabel(model))

\* The filter applied to the other model type.
filterByClassInverted(model) == model.type = "detect"

\* const filterByClass = model.type === "workflow"
filterByClass(model) == model.type = "workflow"

Filtered(predictions, model) ==
    IF filterByClass(model)
    THEN SelectSeq(predictions, LAMBDA p : ClassMatches(p, model))
    ELSE predictions

(***************************************************************************)
(* Region aggregation: the tail of analyzeImageWithRoboflow.               *)
(***************************************************************************)
\* The empty result with the flag of the detected branch.
NoDetectionFlagged(imageWidth, imageHeight) ==
    [area |-> 0, areaPercentage |-> 0, imageWidth |-> imageWidth,
     imageHeight |-> imageHeight, confidence |-> 0, detected |-> TRUE,
     boundingBox |-> <<>>, allPolygons |-> <<>>, maskImage |-> ""]

\* The empty result with a bounding box of zero extent.
NoDetectionBoxed(imageWidth, imageHeight) ==
    [area |-> 0, areaPercentage |-> 0, imageWidth |-> imageWidth,
     imageHeight |-> imageHeight, confidence |-> 0, detected |-> FALSE,
     boundingBox |-> <<[x |-> 0, y |-> 0, width |-> 0, height |-> 0]>>,
     allPolygons |-> <<>>, maskImage |-> ""]

\* The empty result without the dimensions of the descent.
NoDetectionWithoutDims(imageWidth, imageHeight) ==
    [area |-> 0, areaPercentage |-> 0, imageWidth |-> 0,
     imageHeight |-> 0, confidence |-> 0, detected |-> FALSE,
     boundingBox |-> <<>>, allPolygons |-> <<>>, maskImage |-> ""]

\* return { area: 0, areaPercentage: 0, imageWidth, imageHeight,
\*          confidence: 0, detected: false }
NoDetection(imageWidth, imageHeight) ==
    [area |-> 0, areaPercentage |-> 0, imageWidth |-> imageWidth,
     imageHeight |-> imageHeight, confidence |-> 0, detected |-> FALSE,
     boundingBox |-> <<>>, allPolygons |-> <<>>, maskImage |-> ""]

\* minX = Infinity, ..., maxY = -Infinity: `any` is minX !== Infinity.
EmptyAcc ==
    [totalArea2 |-> 0, maxConfidence |-> 0, allPolygons |-> <<>>, any |-> FALSE,
     minX2 |-> 0, minY2 |-> 0, maxX2 |-> 0, maxY2 |-> 0]

\* Math.min / Math.max of one vertex against the running box, all doubled.
Extend(acc, x2, y2) ==
    IF acc.any
    THEN [acc EXCEPT !.minX2 = Min(@, x2), !.minY2 = Min(@, y2),
                     !.maxX2 = Max(@, x2), !.maxY2 = Max(@, y2)]
    ELSE [acc EXCEPT !.any = TRUE, !.minX2 = x2, !.minY2 = y2,
                     !.maxX2 = x2, !.maxY2 = y2]

\* A box prediction entered by its top left corner alone.
ExtendBoxCorner(acc, left2, top2, right2, bottom2) == Extend(acc, left2, top2)

\* A box prediction: minX and minY take its left and top only, maxX and maxY
\* its right and bottom only.
ExtendBox(acc, left2, top2, right2, bottom2) ==
    IF acc.any
    THEN [acc EXCEPT !.minX2 = Min(@, left2), !.minY2 = Min(@, top2),
                     !.maxX2 = Max(@, right2), !.maxY2 = Max(@, bottom2)]
    ELSE [acc EXCEPT !.any = TRUE, !.minX2 = left2, !.minY2 = top2,
                     !.maxX2 = right2, !.maxY2 = bottom2]

RECURSIVE ExtendPoints(_, _, _)
ExtendPoints(acc, points, i) ==
    IF i > Len(points) THEN acc
    ELSE ExtendPoints(Extend(acc, 2 * points[i].x, 2 * points[i].y), points, i + 1)

\* An iteration that keeps the area of the most confident prediction only.
AddPredictionBest(acc, prediction) ==
    LET polygon == prediction.hasPoints /\ Len(prediction.points) >= 3
        area2 == IF polygon THEN calculatePolygonArea2(prediction.points)
                 ELSE 2 * prediction.width * prediction.height
        a1 == [acc EXCEPT !.maxConfidence = Max(@, prediction.confidence)]
        a2 == [a1 EXCEPT !.totalArea2 =
                    IF prediction.confidence > acc.maxConfidence THEN area2 ELSE @]
    IN  IF polygon
        THEN ExtendPoints([a2 EXCEPT !.allPolygons = Append(@, prediction.points)],
                          prediction.points, 1)
        ELSE IF prediction.width # 0 /\ prediction.height # 0
        THEN ExtendBox(a2,
                2 * prediction.x - prediction.width,
                2 * prediction.y - prediction.height,
                2 * prediction.x + prediction.width,
                2 * prediction.y + prediction.height)
        ELSE a1

\* One iteration of `for (const prediction of predictions)`.
AddPrediction(acc, prediction) ==
    LET a1 == [acc EXCEPT !.maxConfidence = Max(@, prediction.confidence)]
    IN  IF prediction.hasPoints /\ Len(prediction.points) >= 3
        THEN ExtendPoints(
                [a1 EXCEPT !.totalArea2 = @ + calculatePolygonArea2(prediction.points),
                           !.allPolygons = Append(@, prediction.points)],
                prediction.points, 1)
        ELSE IF prediction.width # 0 /\ prediction.height # 0
        THEN ExtendBox(
                [a1 EXCEPT !.totalArea2 = @ + 2 * prediction.width * prediction.height],
                2 * prediction.x - prediction.width,
                2 * prediction.y - prediction.height,
                2 * prediction.x + prediction.width,
                2 * prediction.y + prediction.height)
        ELSE a1

RECURSIVE Accumulate(_, _, _)
Accumulate(predictions, i, acc) ==
    IF i > Len(predictions) THEN acc
    ELSE Accumulate(predictions, i + 1, AddPrediction(acc, predictions[i]))

\* Math.floor(x) for x = n / d, d > 0.
RoundDivDown(n, d) == n \div d

\* Math.round(x) for x = n / d, d > 0: floor(x + 1/2).
RoundDiv(n, d) == (2 * n + d) \div (2 * d)

\* n / d lies exactly halfway between two integers.
IsTie(n, d) == (2 * n + d) % (2 * d) = 0

\* totalArea2 of one square pixel.
PixelArea2 == 2 * SubPixel * SubPixel

\* Math.round(areaPercentage * 100) for
\* areaPercentage = (totalArea / totalImageArea) * 100, in hundredths of a
\* percent.  The quotient and the two products are rounded doubles with a
\* relative error below 2^-51, which moves the value across a half only when
\* the exact percentage is halfway between two hundredths: there the doubles
\* are computed, elsewhere the exact rounding is the result.
PercentHundredths(totalArea2, totalImageArea) ==
    LET n == totalArea2 * 10000
        d == PixelArea2 * totalImageArea
        hundred == FromRatio(100, 1)
        quotient == FromRatio(totalArea2, d)
    IN  IF IsTie(n, d)
        THEN MathRound(FMul(FMul(quotient, hundred), hundred))
        ELSE RoundDiv(n, d)

\* Everything after the descent loop, from `if (!predictions || ...)` on.
Aggregate(predictions, maskImage, imageWidth, imageHeight) ==
    IF Len(predictions) = 0 THEN NoDetection(imageWidth, imageHeight)
    ELSE LET acc == Accumulate(predictions, 1, EmptyAcc)
             totalImageArea == imageWidth * imageHeight
         IN  IF acc.totalArea2 = 0 THEN NoDetection(imageWidth, imageHeight)
             ELSE [area |-> RoundDiv(acc.totalArea2, PixelArea2),
                   areaPercentage |->
                        IF totalImageArea > 0
                        THEN PercentHundredths(acc.totalArea2, totalImageArea)
                        ELSE 0,
                   imageWidth |-> imageWidth,
                   imageHeight |-> imageHeight,
                   confidence |-> RoundDiv(acc.maxConfidence, 10),
                   detected |-> TRUE,
                   boundingBox |->
                        IF acc.any
                        THEN <<[x |-> acc.minX2 + acc.maxX2,
                                y |-> acc.minY2 + acc.maxY2,
                                width |-> 2 * (acc.maxX2 - acc.minX2),
                                height |-> 2 * (acc.maxY2 - acc.minY2)]>>
                        ELSE <<>>,
                   allPolygons |-> acc.allPolygons,
                   maskImage |-> maskImage]

(***************************************************************************)
(* callRoboflowAPI and one turn of the descent loop.                       *)
(***************************************************************************)
\* The response handed on without the `response.ok` test.
callRoboflowAPIUnchecked(response) == [threw |-> FALSE, result |-> response]

\* if (!response.ok) throw ...; return response.json() (which throws on a
\* body that is not JSON).
callRoboflowAPI(response) ==
    [threw |-> response.status # "ok", result |-> response]

\* analyzeImageWithRoboflow up to its first await: the locals and the first
\* call, at the initial confidence.  calls, matched and failures are history:
\* the confidence of every call made, the size of the filtered set of every
\* response handled, and the number of calls that failed.
StartedTask ==
    [pc |-> "calling", confidence |-> InitialConfidence, descents |-> 0,
     predictions |-> <<>>, maskImage |-> "", imageWidth |-> 0, imageHeight |-> 0,
     calls |-> <<InitialConfidence>>, matched |-> <<>>, failures |-> 0,
     last |-> [nPreds |-> 0, nFiltered |-> 0], result |-> <<>>]

IdleTask == [StartedTask EXCEPT !.pc = "idle", !.calls = <<>>]

\* A test of `filtered.length > 1`.
FoundSeveral(filtered) == Len(filtered) > 1

\* if (filtered.length > 0)
Found(filtered) == Len(filtered) > 0

\* Dimensions taken from every response that has some, also over retained ones.
RetainLatest(t, extracted) ==
    IF extracted.imageWidth > 0
    THEN [imageWidth |-> extracted.imageWidth, imageHeight |-> extracted.imageHeight]
    ELSE [imageWidth |-> t.imageWidth, imageHeight |-> t.imageHeight]

\* if (imageWidth === 0 && extracted.imageWidth > 0) {
\*     imageWidth = extracted.imageWidth; imageHeight = extracted.imageHeight; }
RetainDims(t, extracted) ==
    IF t.imageWidth = 0 /\ extracted.imageWidth > 0
    THEN [imageWidth |-> extracted.imageWidth, imageHeight |-> extracted.imageHeight]
    ELSE [imageWidth |-> t.imageWidth, imageHeight |-> t.imageHeight]

\* A match that keeps dimensions retained from an earlier attempt.
MatchDimsRetained(t, extracted) == RetainDims(t, extracted)

\* imageWidth = extracted.imageWidth; imageHeight = extracted.imageHeight;
\* in the branch of a match.
MatchDims(t, extracted) ==
    [imageWidth |-> extracted.imageWidth, imageHeight |-> extracted.imageHeight]

\* The continuation of `await callRoboflowAPI(...)` for invocation t, given the
\* detector's response: the rest of the loop body, the loop test, and either
\* the next call or the code after the loop.
HandleResponse(t, response, model) ==
    LET called == callRoboflowAPI(response)
        extracted == extractData(called.result)
        filtered == Filtered(extracted.predictions, model)
        seen == [nPreds |-> Len(extracted.predictions), nFiltered |-> Len(filtered)]
        w == RetainDims(t, extracted).imageWidth
        h == RetainDims(t, extracted).imageHeight
        c == SubTenth(t.confidence)
        t0 == [t EXCEPT !.failures = IF response.status # "ok" THEN @ + 1 ELSE @]
        t1 == [t0 EXCEPT !.last = seen, !.matched = Append(@, Len(filtered))]
    IN  IF called.threw
        THEN [t0 EXCEPT !.pc = "rejected"]
        ELSE IF Found(filtered)
        THEN [t1 EXCEPT !.pc = "resolved",
                        !.predictions = filtered,
                        !.maskImage = extracted.maskImage,
                        !.imageWidth = MatchDims(t, extracted).imageWidth,
                        !.imageHeight = MatchDims(t, extracted).imageHeight,
                        !.result = <<Aggregate(filtered, extracted.maskImage,
                                               MatchDims(t, extracted).imageWidth,
                                               MatchDims(t, extracted).imageHeight)>>]
        ELSE IF GeqTenth(c)
        THEN [t1 EXCEPT !.confidence = c, !.descents = @ + 1,
                        !.imageWidth = w, !.imageHeight = h,
                        !.calls = Append(@, c)]
        ELSE [t1 EXCEPT !.pc = "resolved", !.confidence = c, !.descents = @ + 1,
                        !.imageWidth = w, !.imageHeight = h,
                        !.result = <<Aggregate(t.predictions, t.maskImage, w, h)>>]

(***************************************************************************)
(* The progress reporter: steps, sendEvent, updateStep.                    *)
(***************************************************************************)
StepNames == <<"validate", "prepare", "analyze_before", "analyze_after", "finalize">>

StepLabel(s) ==
    CASE s = "validate" -> "Validating request"
      [] s = "prepare" -> "Preparing images"
      [] s = "analyze_before" -> "Analyzing before image"
      [] s = "analyze_after" -> "Analyzing after image"
      [] OTHER -> "Generating results"

\* The steps with the two analyses in the other order.
createInitialStepsSwapped ==
    [j \in 1..Len(StepNames) |->
        LET name == StepNames[IF j = 3 THEN 4 ELSE IF j = 4 THEN 3 ELSE j]
        IN  [step |-> name, label |-> StepLabel(name), status |-> "pending"]]

createInitialSteps ==
    [j \in 1..Len(StepNames) |->
        [step |-> StepNames[j], label |-> StepLabel(StepNames[j]), status |-> "pending"]]

ProgressEvent(stepList, currentStep) ==
    [type |-> "progress", steps |-> stepList, currentStep |-> currentStep]

CompleteEvent(stepList, result) ==
    [type |-> "complete", steps |-> stepList, result |-> result]

ErrorEvent(message) == [type |-> "error", error |-> message]

\* What the closures of start(controller) read and write.
Out == [steps |-> steps, frames |-> frames, closed |-> closed,
        dropped |-> dropped, threw |-> FALSE]

\* An enqueue that a closed controller accepts.
sendEventAlways(o, event) ==
    IF o.threw THEN o ELSE [o EXCEPT !.frames = Append(@, event)]

\* sendEvent: controller.enqueue on a closed controller throws a TypeError, so
\* nothing is enqueued and the caller is abandoned.
sendEvent(o, event) ==
    IF o.threw THEN o
    ELSE IF o.closed THEN [o EXCEPT !.threw = TRUE, !.dropped = @ + 1]
    ELSE [o EXCEPT !.frames = Append(@, event)]

close(o) == IF o.threw THEN o ELSE [o EXCEPT !.closed = TRUE]

\* An updateStep that has lost its `status === "running"` branch.
updateStepCompletedOnly(o, stepName, status) ==
    IF o.threw THEN o
    ELSE LET o1 == [o EXCEPT !.steps =
                        [j \in DOMAIN @ |->
                            IF @[j].step = stepName
                            THEN [@[j] EXCEPT !.status = status]
                            ELSE @[j]]]
         IN  IF status = "completed"
             THEN sendEvent(o1, ProgressEvent(o1.steps, stepName))
             ELSE o1

updateStep(o, stepName, status) ==
    IF o.threw THEN o
    ELSE LET o1 == [o EXCEPT !.steps =
                        [j \in DOMAIN @ |->
                            IF @[j].step = stepName
                            THEN [@[j] EXCEPT !.status = status]
                            ELSE @[j]]]
         IN  IF status \in {"running", "completed"}
             THEN sendEvent(o1, ProgressEvent(o1.steps, stepName))
             ELSE o1

startStep(o, stepName) == updateStep(o, stepName, "running")

completeStep(o, stepName) == updateStep(o, stepName, "completed")

\* A catch block that leaves the stream open.
CatchNoClose(o, message) == sendEvent(o, ErrorEvent(message))

\* The catch block of start(controller).
Catch(o, message) == close(sendEvent(o, ErrorEvent(message)))

Commit(o) ==
    /\ steps' = o.steps
    /\ frames' = o.frames
    /\ closed' = o.closed
    /\ dropped' = o.dropped

(***************************************************************************)
(* The Home component of the page: its state.                              *)
(***************************************************************************)
NoFile == ""

\* const initialProgressState (totalDuration is not modelled)
initialProgressState == [steps |-> <<>>, currentStep |-> "", isComplete |-> FALSE]

\* The useState initial values, and no startAnalysis run.  An absent error or
\* result (null) is <<>>.  cleared is history: restart() ran and no analysis
\* has been started since.
InitialPage ==
    [before |-> NoFile, after |-> NoFile, loading |-> FALSE, error |-> <<>>,
     result |-> <<>>, progress |-> initialProgressState, runs |-> <<>>,
     cleared |-> FALSE]

(***************************************************************************)
(* The handler.                                                            *)
(***************************************************************************)
\* No function is called on its own while the handler runs.
NoCall == [fn |-> "", points |-> <<>>, predictions |-> <<>>, maskImage |-> "",
           imageWidth |-> 0, imageHeight |-> 0, result |-> <<>>, returned |-> <<>>]

ModelFields == {"", "nivel-de-cabelo"}

Init ==
    /\ req \in [before : BOOLEAN, after : BOOLEAN, apiKey : BOOLEAN,
                bodyOk : BOOLEAN, model : ModelFields]
    /\ pc = "start"
    /\ steps = createInitialSteps
    /\ frames = <<>>
    /\ closed = FALSE
    /\ dropped = 0
    /\ task = [i \in Images |-> IdleTask]
    /\ call = NoCall
    /\ page = InitialPage

\* start(controller) up to `await req.formData()`.
Start ==
    /\ pc = "start"
    /\ pc' = "formData"
    /\ Commit(startStep(Out, "validate"))
    /\ UNCHANGED <<req, task, call, page>>

\* The checks of the form data with the API key tested first.
ValidateKeyFirst ==
    /\ pc = "formData"
    /\ IF ~req.bodyOk
       THEN pc' = "done" /\ Commit(Catch(Out, "Failed to parse body as FormData."))
       ELSE IF ~req.apiKey
       THEN /\ pc' = "done"
            /\ Commit(close(sendEvent(Out, ErrorEvent("Missing ROBOFLOW_API_KEY"))))
       ELSE IF ~req.before \/ ~req.after
       THEN /\ pc' = "done"
            /\ Commit(close(sendEvent(Out,
                    ErrorEvent("Both 'before' and 'after' images are required"))))
       ELSE /\ pc' = "prepare"
            /\ Commit(startStep(completeStep(Out, "validate"), "prepare"))
    /\ UNCHANGED <<req, task, call, page>>

\* From the form data to `await Promise.all([blobToBase64 ...])`.
Validate ==
    /\ pc = "formData"
    /\ IF ~req.bodyOk
       THEN pc' = "done" /\ Commit(Catch(Out, "Failed to parse body as FormData."))
       ELSE IF ~req.before \/ ~req.after
       THEN /\ pc' = "done"
            /\ Commit(close(sendEvent(Out,
                    ErrorEvent("Both 'before' and 'after' images are required"))))
       ELSE IF ~req.apiKey
       THEN /\ pc' = "done"
            /\ Commit(close(sendEvent(Out, ErrorEvent("Missing ROBOFLOW_API_KEY"))))
       ELSE /\ pc' = "prepare"
            /\ Commit(startStep(completeStep(Out, "validate"), "prepare"))
    /\ UNCHANGED <<req, task, call, page>>

\* From the base64 payloads to `await Promise.all([analyze ..., analyze ...])`:
\* both invocations run to their first fetch (their own test of the API key
\* passes, as the handler's did).
Prepare ==
    /\ pc = "prepare"
    /\ pc' = "all"
    /\ Commit(updateStep(updateStep(completeStep(Out, "prepare"),
                                    "analyze_before", "running"),
                         "analyze_after", "running"))
    /\ task' = [i \in Images |-> StartedTask]
    /\ UNCHANGED <<req, call, page>>

\* Promise.all over the two `.then` promises, seen when invocation i settles
\* as t1 while the other invocation is t2.  (A `.then` callback that throws
\* rejects its promise too; pc = "all" is Promise.all still pending.)
PromiseAll(t1, t2) ==
    IF t1.pc = "rejected" THEN "rejected"
    ELSE IF t1.pc = "resolved" /\ t2.pc = "resolved" THEN "fulfilled"
    ELSE "pending"

\* The complete frame sent before step 5 is reported.
FinalizeEarly(o, beforeResult, afterResult) ==
    LET o1 == sendEvent(o, CompleteEvent(o.steps,
                [before |-> beforeResult, after |-> afterResult]))
    IN  close(completeStep(startStep(o1, "finalize"), "finalize"))

\* Step 5 and the complete frame.
Finalize(o, beforeResult, afterResult) ==
    LET o1 == completeStep(startStep(o, "finalize"), "finalize")
    IN  close(sendEvent(o1, CompleteEvent(o1.steps,
                [before |-> beforeResult, after |-> afterResult])))

\* The continuation with the confidence of the other invocation's descent, as
\* if the two loops shared one counter.
ContinueShared(i, response) ==
    LET shared == [task[i] EXCEPT !.confidence = task[Other(i)].confidence]
        t1 == HandleResponse(shared, response, SelectModel(req.model))
        t2 == task[Other(i)]
        o1 == IF t1.pc = "resolved" THEN completeStep(Out, AnalyzeStep(i)) ELSE Out
        all == IF o1.threw THEN "rejected" ELSE PromiseAll(t1, t2)
    IN  /\ task' = [task EXCEPT ![i] = t1]
        /\ IF pc = "all" /\ all = "fulfilled"
           THEN /\ pc' = "done"
                /\ Commit(Finalize(o1,
                        IF i = "before" THEN t1.result[1] ELSE t2.result[1],
                        IF i = "before" THEN t2.result[1] ELSE t1.result[1]))
           ELSE IF pc = "all" /\ all = "rejected"
           THEN /\ pc' = "done"
                /\ Commit(Catch(o1, "Roboflow API error"))
           ELSE /\ pc' = pc
                /\ Commit(o1)

\* The continuation of invocation i on the detector's response, with every
\* continuation that this makes ready (the `.then` callback, Promise.all, the
\* rest of start(controller) or its catch block).
Continue(i, response) ==
    LET t1 == HandleResponse(task[i], response, SelectModel(req.model))
        t2 == task[Other(i)]
        o1 == IF t1.pc = "resolved" THEN completeStep(Out, AnalyzeStep(i)) ELSE Out
        all == IF o1.threw THEN "rejected" ELSE PromiseAll(t1, t2)
    IN  /\ task' = [task EXCEPT ![i] = t1]
        /\ IF pc = "all" /\ all = "fulfilled"
           THEN /\ pc' = "done"
                /\ Commit(Finalize(o1,
                        IF i = "before" THEN t1.result[1] ELSE t2.result[1],
                        IF i = "before" THEN t2.result[1] ELSE t1.result[1]))
           ELSE IF pc = "all" /\ all = "rejected"
           THEN /\ pc' = "done"
                /\ Commit(Catch(o1, "Roboflow API error"))
           ELSE /\ pc' = pc
                /\ Commit(o1)

\* A detector response for invocation i arrives and its continuation runs.
DetectorRespondFrom(i, responses) ==
    /\ task[i].pc = "calling"
    /\ \E response \in responses : Continue(i, response)
    /\ UNCHANGED <<req, call, page>>

DetectorRespond(i) == DetectorRespondFrom(i, Responses)

Next ==
    \/ Start
    \/ Validate
    \/ Prepare
    \/ \E i \in Images : DetectorRespond(i)

Spec == Init /\ [][Next]_vars

\* The handler against a detector with four kinds of response: a failure, no
\* prediction, a prediction of another class, a prediction of the target class.
FewResponses ==
    { FailResponse("http_error"),
      OkResponse("root", <<>>, NoImage, ""),
      OkResponse("root", <<PredUniverse[3]>>, NoImage, ""),
      OkResponse("root", <<PredUniverse[1]>>, [width |-> 100, height |-> 80], "") }

DetectorRespondFew(i) == DetectorRespondFrom(i, FewResponses)

FairNext ==
    \/ Start
    \/ Validate
    \/ Prepare
    \/ \E i \in Images : DetectorRespondFew(i)

\* Every ready continuation runs, and every detector call returns or fails.
FairSpec == Init /\ [][FairNext]_vars /\ WF_vars(FairNext)

(***************************************************************************)
(* The handler with the detector's responses recorded, image by image.     *)
(***************************************************************************)
Dims100x80 == [width |-> 100, height |-> 80]

Dims200x100 == [width |-> 200, height |-> 100]

\* The responses of the recorded detector.  For the before image: a failure,
\* no prediction without dimensions, with dimensions at the root and with
\* other dimensions in the workflow shape, a prediction of another class
\* without dimensions, and a prediction of the target class, and one of zero
\* width, with dimensions and a mask.  For the after image: a failure, no
\* prediction, and a prediction of the target class without dimensions.
RecordedResponses(i) ==
    IF i = "before"
    THEN { FailResponse("http_error"),
           OkResponse("root", <<>>, NoImage, ""),
           OkResponse("root", <<>>, Dims100x80, ""),
           OkResponse("outputs", <<>>, Dims200x100, "mask"),
           OkResponse("root", <<PredUniverse[3]>>, NoImage, ""),
           OkResponse("outputs", <<PredUniverse[1]>>, Dims200x100, "mask"),
           OkResponse("outputs", <<BoxPred("bald spot", 950, Px(20), Px(20), 0, Px(10))>>,
                      Dims200x100, "mask") }
    ELSE { FailResponse("http_error"),
           OkResponse("root", <<>>, NoImage, ""),
           OkResponse("root", <<PredUniverse[1]>>, NoImage, "") }

NoResponses == [fn |-> "POST", responses |-> [i \in Images |-> <<>>]]

RecordedInit ==
    /\ req \in [before : BOOLEAN, after : BOOLEAN, apiKey : BOOLEAN,
                bodyOk : BOOLEAN, model : ModelFields]
    /\ pc = "start"
    /\ steps = createInitialSteps
    /\ frames = <<>>
    /\ closed = FALSE
    /\ dropped = 0
    /\ task = [i \in Images |-> IdleTask]
    /\ call = NoResponses
    /\ page = InitialPage

DetectorRespondRecorded(i) ==
    /\ task[i].pc = "calling"
    /\ \E response \in RecordedResponses(i) :
        /\ Continue(i, response)
        /\ call' = [call EXCEPT !.responses[i] = Append(@, response)]
    /\ UNCHANGED <<req, page>>

RecordedNext ==
    \/ Start
    \/ Validate
    \/ Prepare
    \/ \E i \in Images : DetectorRespondRecorded(i)

RecordedSpec == RecordedInit /\ [][RecordedNext]_vars

(***************************************************************************)
(* calculatePolygonArea and the aggregation, each called on its own.       *)
(***************************************************************************)
\* Longest point list handed to calculatePolygonArea.
MaxPoints == 4

\* Vertices as the detector's JSON writes them, in tenths of a pixel: the
\* corners of the square of side 10, a half-pixel coordinate, and the decimals
\* 0.1, 0.3, 0.7, which are not doubles.
DecimalPoints ==
    {Pt(0, 0), Pt(100, 0), Pt(100, 100), Pt(0, 100), Pt(35, 100),
     Pt(1, 1), Pt(7, 1), Pt(7, 3)}

\* The points as JSON.parse hands them to the code.
Parsed(points) ==
    [i \in DOMAIN points |->
        Pt(FromRatio(points[i].x, 10), FromRatio(points[i].y, 10))]

RECURSIVE PointLists(_)
\* The point lists of length at most n.
PointLists(n) ==
    IF n = 0 THEN {<<>>}
    ELSE LET shorter == PointLists(n - 1)
         IN  shorter \cup
             {Append(q, pt) : q \in {r \in shorter : Len(r) = n - 1},
                              pt \in DecimalPoints}

\* Filtered predictions of every shape the aggregation distinguishes: boxes
\* apart and overlapping, a box of 500 square pixels, a triangle of half a
\* square pixel, a box of a quarter of a square pixel, boxes with a zero and
\* with a negative width, point lists of two points (alone and on a box), a
\* polygon of collinear points, and a square polygon.
RegionUniverse ==
    << BoxPred("bald spot", 900, Px(0), Px(0), Px(10), Px(10)),
       BoxPred("bald spot", 800, Px(100), Px(100), Px(10), Px(10)),
       BoxPred("bald spot", 700, Px(50), Px(50), Px(25), Px(20)),
       PolyPred("bald spot", 600, <<Pt(0, 0), Pt(Px(1), 0), Pt(0, Px(1))>>),
       BoxPred("bald spot", 500, Px(3), Px(3), 1, 1),
       BoxPred("bald spot", 950, Px(200), Px(200), 0, Px(10)),
       PolyPred("bald spot", 400, <<Pt(Px(2), Px(2)), Pt(Px(8), Px(8))>>),
       BoxPred("bald spot", 300, Px(20), Px(20), -Px(4), Px(5)),
       PolyPred("bald spot", 990,
                <<Pt(0, 0), Pt(Px(150), Px(150)), Pt(Px(300), Px(300))>>),
       PolyPred("bald spot", 450,
                <<Pt(0, 0), Pt(Px(10), 0), Pt(Px(10), Px(10)), Pt(0, Px(10))>>),
       [BoxPred("bald spot", 350, Px(30), Px(30), Px(4), Px(4))
            EXCEPT !.hasPoints = TRUE,
                   !.points = <<Pt(Px(90), Px(90)), Pt(Px(95), Px(95))>>],
       BoxPred("bald spot", 250, Px(60), Px(20), Px(4), Px(5)) >>

RECURSIVE RegionLists(_)
\* The prediction lists of length at most n, in every order.
RegionLists(n) ==
    IF n = 0 THEN {<<>>}
    ELSE LET shorter == RegionLists(n - 1)
         IN  shorter \cup
             {Append(q, RegionUniverse[x]) :
                q \in {r \in shorter : Len(r) = n - 1},
                x \in DOMAIN RegionUniverse}

\* Image dimensions as the descent hands them on: extracted, or 0 when the
\* response had none and none could be inferred.
RegionDims == {<<100, 100>>, <<100, 50>>, <<0, 0>>}

PolygonAreaCalls ==
    {[NoCall EXCEPT !.fn = "calculatePolygonArea", !.points = pts] :
        pts \in PointLists(MaxPoints)}

AggregateCalls ==
    {[NoCall EXCEPT !.fn = "aggregate", !.predictions = ps, !.maskImage = m,
                    !.imageWidth = d[1], !.imageHeight = d[2]] :
        ps \in RegionLists(MaxPreds), m \in {"", "mask"}, d \in RegionDims}

\* Predictions of a detector response: a box, a triangle, a box centred at
\* x = 0, a box centred at y = 0, and a box that also has a list of two points.
ExtractUniverse ==
    << BoxPred("bald spot", 856, Px(50), Px(40), Px(20), Px(10)),
       PolyPred("bald spot", 432,
                <<Pt(Px(10), Px(10)), Pt(Px(30), Px(10)), Pt(Px(10), Px(20))>>),
       BoxPred("bald spot", 700, 0, Px(30), Px(20), Px(10)),
       BoxPred("bald spot", 650, Px(30), 0, Px(20), Px(10)),
       [BoxPred("bald spot", 350, Px(80), Px(80), Px(4), Px(4))
            EXCEPT !.hasPoints = TRUE,
                   !.points = <<Pt(Px(90), Px(90)), Pt(Px(95), Px(95))>>] >>

RECURSIVE ExtractLists(_)
\* The prediction lists of length at most n, in every order.
ExtractLists(n) ==
    IF n = 0 THEN {<<>>}
    ELSE LET shorter == ExtractLists(n - 1)
         IN  shorter \cup
             {Append(q, ExtractUniverse[x]) :
                q \in {r \in shorter : Len(r) = n - 1},
                x \in DOMAIN ExtractUniverse}

\* A response of either shape, without image dimensions or with them.
ExtractDataCalls ==
    {[NoCall EXCEPT !.fn = "extractData",
                    !.result = <<OkResponse(shape, ps, image,
                                            IF shape = "outputs" THEN "mask" ELSE "")>>] :
        shape \in {"root", "outputs"}, ps \in ExtractLists(MaxPreds),
        image \in {NoImage, Dims100x80}}

PureInit ==
    /\ call \in PolygonAreaCalls \cup AggregateCalls \cup ExtractDataCalls
    /\ req = [before |-> FALSE, after |-> FALSE, apiKey |-> FALSE,
              bodyOk |-> FALSE, model |-> ""]
    /\ pc = "idle"
    /\ steps = createInitialSteps
    /\ frames = <<>>
    /\ closed = FALSE
    /\ dropped = 0
    /\ task = [i \in Images |-> IdleTask]
    /\ page = InitialPage

\* calculatePolygonArea(points) on the parsed points.
CallPolygonArea ==
    /\ call.fn = "calculatePolygonArea"
    /\ call.returned = <<>>
    /\ call' = [call EXCEPT
                    !.returned = <<calculatePolygonArea(Parsed(call.points))>>]
    /\ UNCHANGED <<req, pc, steps, frames, closed, task, dropped, page>>

\* The aggregation of analyzeImageWithRoboflow on a filtered list.
CallAggregate ==
    /\ call.fn = "aggregate"
    /\ call.returned = <<>>
    /\ call' = [call EXCEPT !.returned =
                    <<Aggregate(call.predictions, call.maskImage,
                                call.imageWidth, call.imageHeight)>>]
    /\ UNCHANGED <<req, pc, steps, frames, closed, task, dropped, page>>

\* extractData(result) on a parsed response.
CallExtractData ==
    /\ call.fn = "extractData"
    /\ call.returned = <<>>
    /\ call' = [call EXCEPT !.returned = <<extractData(call.result[1])>>]
    /\ UNCHANGED <<req, pc, steps, frames, closed, task, dropped, page>>

PureNext ==
    \/ CallPolygonArea
    \/ CallAggregate
    \/ CallExtractData

PureSpec == PureInit /\ [][PureNext]_vars

(***************************************************************************)
(* The Home component: file selection, Execute, Reset/Clear, and the runs  *)
(* of startAnalysis against the response stream of /api/analyze.  A read   *)
(* of the stream hands over one frame; the stream carries progress frames, *)
(* then one complete or error frame, and ends.  showProgressDetails and    *)
(* totalDuration are not modelled.                                         *)
(***************************************************************************)
\* Most runs of startAnalysis in one session of the page.
MaxRuns == 2

\* Most progress frames of one response stream.
MaxProgress == 2

Files == {"photo"}

\* Messages of the handler's error frames: its own two, and error.message of
\* what analyzeImageWithRoboflow threw, the status error of callRoboflowAPI or
\* the SyntaxError of response.json() on an empty body.
ErrorMessages ==
    {"Both 'before' and 'after' images are required",
     "Roboflow API error",
     "Unexpected end of JSON input"}

\* The n-th progress frame of a stream: step n is running.
StreamProgress(n) ==
    ProgressEvent([j \in DOMAIN createInitialSteps |->
                        [createInitialSteps[j] EXCEPT
                            !.status = IF j < n THEN "completed"
                                       ELSE IF j = n THEN "running" ELSE @]],
                  StepNames[n])

StreamComplete ==
    CompleteEvent([j \in DOMAIN createInitialSteps |->
                        [createInitialSteps[j] EXCEPT !.status = "completed"]],
                  [before |-> NoDetection(100, 80), after |-> NoDetection(100, 80)])

\* A run of startAnalysis suspended in `await fetch(...)`.  progress counts the
\* progress frames read, terminal is that the complete or error frame was
\* read; got is history: the frames read.
NewRun == [pc |-> "fetch", progress |-> 0, terminal |-> FALSE, got |-> <<>>]

\* const canAnalyze = !!before && !!after && !loading
canAnalyze == page.before # NoFile /\ page.after # NoFile /\ ~page.loading

\* The ImageDrop pair is rendered.
ImageDropShown ==
    ~(page.loading /\ Len(page.progress.steps) > 0) /\ page.result = <<>>

\* setBefore / setAfter from an ImageDrop: a file, or null from the input.
SelectFile ==
    /\ ImageDropShown
    /\ \E slot \in {"before", "after"}, f \in Files \cup {NoFile} :
        page' = [page EXCEPT ![slot] = f]
    /\ UNCHANGED <<req, pc, steps, frames, closed, task, dropped, call>>

\* A click on the Execute button (rendered without a result, enabled under
\* canAnalyze): startAnalysis up to `await fetch(...)`.
ClickExecute ==
    /\ page.result = <<>>
    /\ canAnalyze
    /\ Len(page.runs) < MaxRuns
    /\ page' = [page EXCEPT !.loading = TRUE, !.error = <<>>, !.result = <<>>,
                            !.progress = initialProgressState,
                            !.runs = Append(@, NewRun), !.cleared = FALSE]
    /\ UNCHANGED <<req, pc, steps, frames, closed, task, dropped, call>>

\* catch (e) { setError(message); setProgress(initialProgressState); }
\* finally { setLoading(false); } and the run is over.
Thrown(p, r, message) ==
    [p EXCEPT !.error = <<message>>, !.progress = initialProgressState,
              !.loading = FALSE, !.runs[r].pc = "returned"]

\* fetch resolves: `if (!res.ok || !res.body) throw ...`, else the reader.
FetchRespond(r) ==
    /\ page.runs[r].pc = "fetch"
    /\ \E ok \in BOOLEAN :
        page' = IF ok THEN [page EXCEPT !.runs[r].pc = "reading"]
                ELSE Thrown(page, r, "Request failed")
    /\ UNCHANGED <<req, pc, steps, frames, closed, task, dropped, call>>

\* The frames the stream of run r can hand over next.
NextFrames(r) ==
    IF page.runs[r].terminal THEN {}
    ELSE {StreamComplete} \cup {ErrorEvent(m) : m \in ErrorMessages}
         \cup (IF page.runs[r].progress < MaxProgress
               THEN {StreamProgress(page.runs[r].progress + 1)} ELSE {})

\* reader.read() yields one frame and the loop body handles it.  An error
\* frame throws new Error(event.error) inside the try around JSON.parse, whose
\* catch rethrows unless the message is "Unexpected end of JSON input".
ReadFrame(r) ==
    /\ page.runs[r].pc = "reading"
    /\ \E event \in NextFrames(r) :
        LET p == [page EXCEPT !.runs[r].got = Append(@, event),
                              !.runs[r].terminal = event.type # "progress",
                              !.runs[r].progress =
                                    IF event.type = "progress" THEN @ + 1 ELSE @]
        IN  page' =
                IF event.type = "progress"
                THEN [p EXCEPT !.progress = [steps |-> event.steps,
                                             currentStep |-> event.currentStep,
                                             isComplete |-> FALSE]]
                ELSE IF event.type = "complete"
                THEN [p EXCEPT !.progress = [steps |-> event.steps,
                                             currentStep |-> "",
                                             isComplete |-> TRUE],
                               !.result = <<event.result>>]
                ELSE IF event.error # "Unexpected end of JSON input"
                THEN Thrown(p, r, event.error)
                ELSE p
    /\ UNCHANGED <<req, pc, steps, frames, closed, task, dropped, call>>

\* reader.read() yields done: break, then finally { setLoading(false); }.
ReadDone(r) ==
    /\ page.runs[r].pc = "reading"
    /\ page.runs[r].terminal
    /\ page' = [page EXCEPT !.loading = FALSE, !.runs[r].pc = "returned"]
    /\ UNCHANGED <<req, pc, steps, frames, closed, task, dropped, call>>

\* A click on the Reset / Clear button: restart().
Restart ==
    /\ page' = [page EXCEPT !.before = NoFile, !.after = NoFile,
                            !.result = <<>>, !.error = <<>>, !.loading = FALSE,
                            !.progress = initialProgressState, !.cleared = TRUE]
    /\ UNCHANGED <<req, pc, steps, frames, closed, task, dropped, call>>

PageInit ==
    /\ page = InitialPage
    /\ req = [before |-> FALSE, after |-> FALSE, apiKey |-> FALSE,
              bodyOk |-> FALSE, model |-> ""]
    /\ pc = "idle"
    /\ steps = createInitialSteps
    /\ frames = <<>>
    /\ closed = FALSE
    /\ dropped = 0
    /\ task = [i \in Images |-> IdleTask]
    /\ call = NoCall

PageNext ==
    \/ SelectFile
    \/ ClickExecute
    \/ \E r \in DOMAIN page.runs : FetchRespond(r)
    \/ \E r \in DOMAIN page.runs : ReadFrame(r)
    \/ \E r \in DOMAIN page.runs : ReadDone(r)
    \/ Restart

PageSpec == PageInit /\ [][PageNext]_vars

(***************************************************************************)
(* Vocabulary of the properties.                                           *)
(***************************************************************************)
TheModel == SelectModel(req.model)

\* The double c is at least the double 0.1.
NotBelowTenth(c) == c.k > 1 \/ (c.k = 1 /\ c.e >= 0)

\* The first n responses handled by invocation i had an empty filtered set.
NoMatchInFirst(i, n) ==
    /\ Len(task[i].matched) >= n
    /\ \A j \in 1..n : task[i].matched[j] = 0

StatusIn(stepList, name) ==
    LET j == CHOOSE q \in DOMAIN stepList : stepList[q].step = name
    IN  stepList[j].status

\* What a frame reports: its step and that step's status, or its type.
Kind(f) ==
    IF f.type = "progress"
    THEN <<f.currentStep, StatusIn(f.steps, f.currentStep)>>
    ELSE <<f.type, "">>

Kinds == [j \in DOMAIN frames |-> Kind(frames[j])]

Terminal(f) == f.type \in {"complete", "error"}

FramesOfType(type) == {j \in DOMAIN frames : frames[j].type = type}

LastFrame == frames[Len(frames)]

\* The position of kind k in the frames, 0 when it is absent.
PositionOf(k) ==
    IF \E j \in DOMAIN frames : Kinds[j] = k
    THEN CHOOSE j \in DOMAIN frames : Kinds[j] = k
    ELSE 0

\* The aggregation was called on its own and has returned.
AggregateReturned == call.fn = "aggregate" /\ call.returned # <<>>

PolygonAreaReturned == call.fn = "calculatePolygonArea" /\ call.returned # <<>>

ExtractDataReturned == call.fn = "extractData" /\ call.returned # <<>>

\* What the call returned.
Returned == call.returned[1]

\* The predictions handed to the aggregation are the universe's entries js.
CalledWith(js) ==
    /\ call.fn = "aggregate"
    /\ call.predictions = [k \in DOMAIN js |-> RegionUniverse[js[k]]]

(***************************************************************************)
(* C1: one image analysis makes at most 5 detector calls, at 0.5, 0.4,     *)
(* 0.3, 0.2, 0.1 (to the tenth, as the code sends and logs them) in that   *)
(* descending order, never below the double 0.1, and then terminates:      *)
(* under fairness no invocation stays in a call for ever.                  *)
(***************************************************************************)
C1_CallsOf(i) ==
    /\ Len(task[i].calls) <= 5
    /\ \A j \in 1..Len(task[i].calls) :
        /\ Percent(task[i].calls[j]) = 60 - 10 * j
        /\ NotBelowTenth(task[i].calls[j])
    /\ task[i].descents <= 5

C1_DescentBounded ==
    /\ [](\A i \in Images : C1_CallsOf(i))
    /\ <>[](\A i \in Images : task[i].pc # "calling")

C1_Witness ==
    \E i \in Images :
        /\ Len(task[i].calls) = 5
        /\ task[i].descents = 5
        /\ task[i].pc = "resolved"

C6_FrameOrder ==
    FramesOfType("complete") # {} =>
        /\ Len(frames) = 11
        /\ Kinds[1] = <<"validate", "running">>
        /\ Kinds[2] = <<"validate", "completed">>
        /\ Kinds[3] = <<"prepare", "running">>
        /\ Kinds[4] = <<"prepare", "completed">>
        /\ {Kinds[j] : j \in 5..8} =
                {<<s, st>> : s \in {"analyze_before", "analyze_after"},
                             st \in {"running", "completed"}}
        /\ \A s \in {"analyze_before", "analyze_after"} :
                PositionOf(<<s, "running">>) < PositionOf(<<s, "completed">>)
        /\ Kinds[9] = <<"finalize", "running">>
        /\ Kinds[10] = <<"finalize", "completed">>
        /\ Kinds[11] = <<"complete", "">>

C6_Witness ==
    /\ Len(frames) = 11
    /\ LastFrame.type = "complete"
    /\ Kinds[7] = <<"analyze_after", "completed">>
    /\ Kinds[8] = <<"analyze_before", "completed">>

(***************************************************************************)
(* C7 as stated: with the API key missing the only frame is one error      *)
(* frame, with no progress frame before it.                                *)
(***************************************************************************)
C7_OnlyAnErrorFrame ==
    (~req.apiKey /\ pc = "done") =>
        /\ Len(frames) = 1
        /\ frames[1].type = "error"

(***************************************************************************)
(* C7 amended: with the API key missing the handler emits exactly two      *)
(* frames: the progress frame validate(running), in which every other step *)
(* is pending, then a single error frame (with the message                 *)
(* "Missing ROBOFLOW_API_KEY" when the body holds both images); no step    *)
(* completes and no detector call is made.                                 *)
(***************************************************************************)
C7_ValidateThenError ==
    (~req.apiKey /\ pc = "done") =>
        /\ Len(frames) = 2
        /\ frames[1] =
            ProgressEvent([createInitialSteps EXCEPT ![1].status = "running"],
                          "validate")
        /\ frames[2].type = "error"
        /\ (req.bodyOk /\ req.before /\ req.after)
                => frames[2].error = "Missing ROBOFLOW_API_KEY"
        /\ steps = [createInitialSteps EXCEPT ![1].status = "running"]
        /\ closed
        /\ \A i \in Images : task[i].calls = <<>>

C7_Witness ==
    /\ ~req.apiKey /\ req.bodyOk /\ req.before /\ req.after
    /\ pc = "done"
    /\ frames[2] = ErrorEvent("Missing ROBOFLOW_API_KEY")

(***************************************************************************)
(* C8: a stream holds at most one terminal frame (complete or error), that *)
(* frame is its last frame, and the stream is closed exactly when it holds *)
(* one; under fairness (every detector call returns or fails) the terminal *)
(* frame is eventually emitted.                                            *)
(***************************************************************************)
C8_TerminalOnce ==
    /\ Cardinality({j \in DOMAIN frames : Terminal(frames[j])}) <= 1
    /\ \A j \in DOMAIN frames : Terminal(frames[j]) => j = Len(frames)
    /\ closed <=> (frames # <<>> /\ Terminal(LastFrame))
    /\ pc = "done" <=> closed

C8_OneTerminalFrame ==
    /\ []C8_TerminalOnce
    /\ <>(closed /\ Terminal(LastFrame))

C8_Witness ==
    /\ closed
    /\ LastFrame.type = "error"
    /\ \E i \in Images : task[i].pc = "resolved" /\ task[Other(i)].pc = "rejected"

(***************************************************************************)
(* C9: an error frame is emitted at most once and no frame follows it,     *)
(* also when the other analysis completes or fails after the failure was   *)
(* reported.                                                               *)
(***************************************************************************)
C9_ErrorIsLast ==
    /\ Cardinality(FramesOfType("error")) <= 1
    /\ \A j \in FramesOfType("error") : j = Len(frames)

C9_Witness ==
    /\ FramesOfType("error") # {}
    /\ dropped > 0
    /\ \E i \in Images : task[i].pc = "rejected" /\ task[Other(i)].pc = "resolved"

(***************************************************************************)
(* C10: when a detector call of either analysis fails the request has no   *)
(* complete frame, so no result of either image is returned, also when the *)
(* other analysis succeeded before or after the failure.                   *)
(***************************************************************************)
C10_NoPartialResult ==
    (\E i \in Images : task[i].failures > 0) =>
        /\ FramesOfType("complete") = {}
        /\ pc = "done"
        /\ LastFrame = ErrorEvent("Roboflow API error")

C10_Witness ==
    \E i \in Images :
        /\ task[i].failures > 0
        /\ task[Other(i)].pc = "resolved"
        /\ task[Other(i)].result[1].detected
        /\ dropped = 0

(***************************************************************************)
(* C11: in every progress and complete frame the steps list has exactly    *)
(* five entries, named validate, prepare, analyze_before, analyze_after,   *)
(* finalize in that order, and so has the handler's steps array at every   *)
(* moment: no operation adds, removes or reorders entries.                 *)
(***************************************************************************)
C11_NamesOf(stepList) == [j \in DOMAIN stepList |-> stepList[j].step]

C11_FiveSteps ==
    /\ C11_NamesOf(steps) =
            <<"validate", "prepare", "analyze_before", "analyze_after", "finalize">>
    /\ \A j \in DOMAIN frames :
            frames[j].type \in {"progress", "complete"} =>
                /\ Len(frames[j].steps) = 5
                /\ C11_NamesOf(frames[j].steps) =
                    <<"validate", "prepare", "analyze_before", "analyze_after",
                      "finalize">>

C11_Witness ==
    /\ FramesOfType("complete") # {}
    /\ Cardinality(FramesOfType("progress")) = 10
    /\ \A j \in DOMAIN steps : steps[j].status = "completed"

(***************************************************************************)
(* C12: along the frames of a request every step's status moves only       *)
(* pending -> running -> completed, one move at a time: from one frame to  *)
(* the next (and from the initial all-pending list to the first frame) a   *)
(* status stays or advances by one, so it never regresses and never jumps  *)
(* from pending to completed; every step is reported running by at most    *)
(* one frame and completed by at most one; and the steps array is never    *)
(* behind the last frame.  This holds for every interleaving of the two    *)
(* analyses.                                                               *)
(***************************************************************************)
C12_Rank(status) ==
    CASE status = "pending" -> 0
      [] status = "running" -> 1
      [] status = "completed" -> 2
      [] OTHER -> -1

\* One move at most from the list a to the list b.
C12_Advances(a, b) ==
    \A k \in DOMAIN a :
        /\ C12_Rank(a[k].status) >= 0
        /\ C12_Rank(b[k].status) - C12_Rank(a[k].status) \in {0, 1}

C12_WithSteps == {j \in DOMAIN frames : frames[j].type # "error"}

C12_StatusMonotonic ==
    /\ \A j \in C12_WithSteps :
            /\ j > 1 => (j - 1) \in C12_WithSteps
            /\ C12_Advances(
                    IF j = 1
                    THEN [k \in 1..5 |-> [status |-> "pending"]]
                    ELSE frames[j - 1].steps,
                    frames[j].steps)
    /\ \A s \in {"validate", "prepare", "analyze_before", "analyze_after",
                  "finalize"} :
       \A st \in {"running", "completed"} :
            Cardinality({j \in DOMAIN frames : Kinds[j] = <<s, st>>}) <= 1
    /\ \A j \in C12_WithSteps : \A k \in 1..5 :
            C12_Rank(steps[k].status) >= C12_Rank(frames[j].steps[k].status)

C12_Witness ==
    /\ FramesOfType("complete") # {}
    /\ PositionOf(<<"analyze_before", "completed">>)
            < PositionOf(<<"analyze_after", "completed">>)

(***************************************************************************)
(* C13 as stated: in every result of the aggregation detected is false if  *)
(* and only if the reported area field is 0.  (A total area below half a   *)
(* square pixel is not 0, so detected is true, and Math.round reports it   *)
(* as 0.)                                                                  *)
(***************************************************************************)
C13_DetectedIffAreaNonZero ==
    AggregateReturned => (~Returned.detected <=> Returned.area = 0)

(***************************************************************************)
(* C14: a result of the aggregation with detected = true has a             *)
(* boundingBox; a result with detected = false has no boundingBox, no      *)
(* allPolygons and no maskImage, also when the predictions held polygons   *)
(* and the response a mask.                                                *)
(***************************************************************************)
C14_BoxIffDetected ==
    AggregateReturned =>
        /\ Returned.detected => Len(Returned.boundingBox) = 1
        /\ ~Returned.detected =>
                /\ Returned.boundingBox = <<>>
                /\ Returned.allPolygons = <<>>
                /\ Returned.maskImage = ""

C14_Witness ==
    /\ AggregateReturned
    /\ CalledWith(<<9, 6>>)
    /\ call.maskImage = "mask"
    /\ ~Returned.detected

(***************************************************************************)
(* C15: the total area of a result is the sum, over all the surviving      *)
(* predictions, of the Shoelace area of a prediction with at least 3       *)
(* points and of width * height of any other; the result is detected       *)
(* exactly when that sum is not 0, and its area field is the sum rounded   *)
(* to the nearest integer.  It is not the area of the most confident       *)
(* prediction, and predictions that overlap are counted each: two boxes of *)
(* 100 square pixels give 200, and so do a box of 100 and a square polygon *)
(* of 100 on the same place.                                               *)
(***************************************************************************)
C15_AreaOf2(p) ==
    IF p.hasPoints /\ Len(p.points) >= 3
    THEN calculatePolygonArea2(p.points)
    ELSE 2 * p.width * p.height

RECURSIVE C15_SumOfAreas2(_)
C15_SumOfAreas2(predictions) ==
    IF predictions = <<>> THEN 0
    ELSE C15_AreaOf2(Head(predictions)) + C15_SumOfAreas2(Tail(predictions))

C15_AreaIsSum ==
    AggregateReturned =>
        LET sum2 == C15_SumOfAreas2(call.predictions)
        IN  /\ Returned.detected <=> sum2 # 0
            /\ Returned.detected =>
                    Returned.area = (2 * sum2 + PixelArea2) \div (2 * PixelArea2)
            /\ (CalledWith(<<1, 2>>) \/ CalledWith(<<1, 10>>) \/ CalledWith(<<10, 1>>))
                    => Returned.area = 200

C15_Witness ==
    /\ AggregateReturned
    /\ CalledWith(<<10, 1>>)
    /\ Returned.area = 200
    /\ Returned.confidence = 90

(***************************************************************************)
(* C16 as stated: for a detected result areaPercentage is                  *)
(* area / (imageWidth * imageHeight) * 100 rounded to 2 decimals, where    *)
(* area is the area field of the same result.                              *)
(***************************************************************************)
C16_PercentOfReportedArea ==
    (AggregateReturned /\ Returned.detected
        /\ call.imageWidth * call.imageHeight > 0) =>
        LET d == call.imageWidth * call.imageHeight
        IN  Returned.areaPercentage
                = (2 * Returned.area * 10000 + d) \div (2 * d)

(***************************************************************************)
(* C16 amended: for a detected result areaPercentage is                    *)
(* totalArea / (imageWidth * imageHeight) * 100 rounded to 2 decimals,     *)
(* where totalArea is the summed area before it is rounded into the area   *)
(* field (a percentage exactly halfway between two hundredths is reported  *)
(* as one of the two), and it is 0 when imageWidth * imageHeight is 0.  A  *)
(* single detection of area 500 in a 100x100 image gives exactly 5.00.     *)
(***************************************************************************)
C16_PercentOfTotalArea ==
    (AggregateReturned /\ Returned.detected) =>
        LET d == PixelArea2 * call.imageWidth * call.imageHeight
            n == C15_SumOfAreas2(call.predictions) * 10000
        IN  /\ d > 0 => 2 * Abs(Returned.areaPercentage * d - n) <= d
            /\ d = 0 => Returned.areaPercentage = 0
            /\ (CalledWith(<<3>>) /\ call.imageWidth = 100 /\ call.imageHeight = 100)
                    => Returned.areaPercentage = 500 /\ Returned.area = 500

C16_Witness ==
    /\ AggregateReturned
    /\ CalledWith(<<3>>)
    /\ call.imageWidth = 100 /\ call.imageHeight = 100
    /\ Returned.areaPercentage = 500

(***************************************************************************)
(* C17 as stated: the boundingBox of a detected result is the union box,   *)
(* in center form, over every vertex of every surviving prediction that    *)
(* has points and every corner (center +/- half extents) of every          *)
(* surviving prediction that is a box.                                     *)
(***************************************************************************)
C17_SetMin(S) == CHOOSE m \in S : \A n \in S : m <= n

C17_SetMax(S) == CHOOSE m \in S : \A n \in S : m >= n

\* The center form of the box from lo to hi on both axes, all doubled.
C17_CenterForm(loX, hiX, loY, hiY) ==
    [x |-> loX + hiX, y |-> loY + hiY,
     width |-> 2 * (hiX - loX), height |-> 2 * (hiY - loY)]

C17_Preds == {call.predictions[j] : j \in DOMAIN call.predictions}

C17_UnionOfAllGeometry ==
    (AggregateReturned /\ Returned.detected) =>
        LET polys == {p \in C17_Preds : p.hasPoints}
            boxes == {p \in C17_Preds : ~p.hasPoints}
            allX == UNION {{2 * p.points[k].x : k \in DOMAIN p.points} : p \in polys}
                    \cup UNION {{2 * p.x - p.width, 2 * p.x + p.width} : p \in boxes}
            allY == UNION {{2 * p.points[k].y : k \in DOMAIN p.points} : p \in polys}
                    \cup UNION {{2 * p.y - p.height, 2 * p.y + p.height} : p \in boxes}
        IN  Returned.boundingBox =
                <<C17_CenterForm(C17_SetMin(allX), C17_SetMax(allX),
                                 C17_SetMin(allY), C17_SetMax(allY))>>

(***************************************************************************)
(* C17 amended: a prediction contributes geometry when it has at least 3   *)
(* points (its vertices), or else when its width and height are both not   *)
(* 0 (its box); a prediction with fewer than 3 points and a zero width or  *)
(* height contributes nothing.  minX and minY are the least of the         *)
(* vertices' coordinates and of the boxes' x - width/2 and y - height/2,   *)
(* maxX and maxY the greatest of the vertices' coordinates and of the      *)
(* boxes' x + width/2 and y + height/2, and the boundingBox is             *)
(* {x:(minX+maxX)/2, y:(minY+maxY)/2, width:maxX-minX, height:maxY-minY}:  *)
(* the union box of the contributing geometry when no extent is negative.  *)
(* Two boxes of width = height = 10 centered at (0,0) and (100,100) yield  *)
(* {x:50, y:50, width:110, height:110}.                                    *)
(***************************************************************************)
C17_UnionOfContributing ==
    (AggregateReturned /\ Returned.detected) =>
        LET polys == {p \in C17_Preds : p.hasPoints /\ Len(p.points) >= 3}
            boxes == {p \in C17_Preds \ polys : p.width # 0 /\ p.height # 0}
            vx == UNION {{2 * p.points[k].x : k \in DOMAIN p.points} : p \in polys}
            vy == UNION {{2 * p.points[k].y : k \in DOMAIN p.points} : p \in polys}
            loX == vx \cup {2 * p.x - p.width : p \in boxes}
            hiX == vx \cup {2 * p.x + p.width : p \in boxes}
            loY == vy \cup {2 * p.y - p.height : p \in boxes}
            hiY == vy \cup {2 * p.y + p.height : p \in boxes}
        IN  /\ Returned.boundingBox =
                    <<C17_CenterForm(C17_SetMin(loX), C17_SetMax(hiX),
                                     C17_SetMin(loY), C17_SetMax(hiY))>>
            /\ CalledWith(<<1, 2>>) =>
                    Returned.boundingBox =
                        <<[x |-> 4 * Px(50), y |-> 4 * Px(50),
                           width |-> 4 * Px(110), height |-> 4 * Px(110)]>>

C17_Witness ==
    /\ AggregateReturned
    /\ CalledWith(<<1, 2>>)
    /\ Returned.detected
    /\ Returned.boundingBox[1].width = 4 * Px(110)

(***************************************************************************)
(* C18 as stated: for every point list calculatePolygonArea returns the    *)
(* same area for the list, for its reversal and for each of its rotations; *)
(* the area is never negative, is 0 for fewer than 3 points and is 100 for *)
(* the square (0,0), (10,0), (10,10), (0,10).                              *)
(***************************************************************************)
C18_Rotate(points, r) ==
    [i \in 1..Len(points) |-> points[((i + r - 1) % Len(points)) + 1]]

C18_Square == <<Pt(0, 0), Pt(100, 0), Pt(100, 100), Pt(0, 100)>>

C18_SameForEveryOrder ==
    /\ Returned = calculatePolygonArea(Parsed(Reverse(call.points)))
    /\ \A r \in 0..(Len(call.points) - 1) :
            Returned = calculatePolygonArea(Parsed(C18_Rotate(call.points, r)))

C18_Basics ==
    /\ Returned.sign = 1
    /\ Len(call.points) < 3 => Returned = Zero
    /\ call.points = C18_Square => Returned = FromRatio(100, 1)

C18_WindingIndependent ==
    PolygonAreaReturned => (C18_SameForEveryOrder /\ C18_Basics)

(***************************************************************************)
(* C18 amended: calculatePolygonArea is never negative, is 0 for fewer     *)
(* than 3 points and is 100 for the square (0,0), (10,0), (10,10), (0,10)  *)
(* in every winding and from every starting vertex.  For point lists whose *)
(* coordinates are integers or half integers (where every product and sum  *)
(* of the loop is exact) the area of the list equals the area of its       *)
(* reversal and of each of its rotations; for other coordinates, such as   *)
(* 0.1 or 0.7, the rounding of the doubles depends on the order of the     *)
(* vertices and the areas may differ in their last bits.                   *)
(***************************************************************************)
C18_ExactCoordinates ==
    \A k \in DOMAIN call.points :
        call.points[k].x % 5 = 0 /\ call.points[k].y % 5 = 0

C18_WindingIndependentWhenExact ==
    PolygonAreaReturned =>
        /\ C18_Basics
        /\ C18_ExactCoordinates => C18_SameForEveryOrder

C18_Witness ==
    /\ PolygonAreaReturned
    /\ call.points = <<Pt(100, 100), Pt(100, 0), Pt(0, 0), Pt(0, 100)>>
    /\ Returned = FromRatio(100, 1)

(***************************************************************************)
(* C19: when the body is form data in which the before or the after        *)
(* payload is missing or is not blob-like, the error is surfaced at the    *)
(* validate stage: validate is never completed and no later step leaves    *)
(* pending, in the steps array and in every frame; no detector call is     *)
(* made; and the stream ends, closed, with a single error frame, which     *)
(* follows the frame validate(running) and carries the message of the      *)
(* input check also when the API key is missing as well.                   *)
(***************************************************************************)
C19_AtValidate(stepList) ==
    /\ stepList[1].status \in {"pending", "running"}
    /\ \A k \in 2..5 : stepList[k].status = "pending"

C19_InputErrorAtValidate ==
    (req.bodyOk /\ (~req.before \/ ~req.after)) =>
        /\ C19_AtValidate(steps)
        /\ \A j \in FramesOfType("progress") : C19_AtValidate(frames[j].steps)
        /\ FramesOfType("complete") = {}
        /\ \A i \in Images : task[i].calls = <<>> /\ task[i].pc = "idle"
        /\ pc = "done" =>
                /\ closed
                /\ Len(frames) = 2
                /\ Kinds[1] = <<"validate", "running">>
                /\ frames[2] =
                    [type |-> "error",
                     error |-> "Both 'before' and 'after' images are required"]

C19_Witness ==
    /\ req.bodyOk /\ ~req.before /\ req.after /\ ~req.apiKey
    /\ pc = "done"
    /\ LastFrame.type = "error"
    /\ LastFrame.error = "Both 'before' and 'after' images are required"

(***************************************************************************)
(* C20: a detector response that is not a success ends the descent of that *)
(* image at once with an error, at whatever threshold it arrives: the      *)
(* failed call is the image's last call, so no call at a lower threshold   *)
(* and no second call at the same threshold follows, and the invocation is *)
(* rejected without a result.                                              *)
(***************************************************************************)
C20_FailureEndsDescent ==
    \A i \in Images :
        task[i].failures > 0 =>
            /\ task[i].failures = 1
            /\ task[i].pc = "rejected"
            /\ task[i].result = <<>>
            /\ Len(task[i].calls) = Len(task[i].matched) + 1
            /\ \A j \in DOMAIN task[i].matched : task[i].matched[j] = 0
            /\ \A j \in DOMAIN task[i].calls :
                    Percent(task[i].calls[j]) = 60 - 10 * j

C20_Witness ==
    \E i \in Images :
        /\ task[i].failures = 1
        /\ Len(task[i].calls) = 3
        /\ task[i].pc = "rejected"
        /\ task[Other(i)].pc = "calling"

(***************************************************************************)
(* C21: once the analysis of one image has failed and the error frame has  *)
(* been sent, the analysis of the other image makes no further detector    *)
(* call.                                                                   *)
(***************************************************************************)
C21_NoCallAfterError ==
    [][(/\ FramesOfType("error") # {}
        /\ \E i \in Images : task[i].pc = "rejected")
       => \A i \in Images : Len(task'[i].calls) = Len(task[i].calls)]_vars

(***************************************************************************)
(* C22: the frame finalize(running) is sent only after both analyses have  *)
(* completed: its steps show analyze_before and analyze_after completed    *)
(* and both completion frames precede it, whichever of the two came first  *)
(* (each order occurs); and the frames of validate, prepare and finalize   *)
(* appear in stage order, each running before completed.                   *)
(***************************************************************************)
C22_StageOrder ==
    << <<"validate", "running">>, <<"validate", "completed">>,
       <<"prepare", "running">>, <<"prepare", "completed">>,
       <<"finalize", "running">>, <<"finalize", "completed">> >>

C22_StageFrames ==
    SelectSeq(Kinds, LAMBDA k : k[1] \in {"validate", "prepare", "finalize"})

C22_FinalizeAfterBoth ==
    /\ \A j \in DOMAIN frames :
        Kinds[j] = <<"finalize", "running">> =>
            /\ StatusIn(frames[j].steps, "analyze_before") = "completed"
            /\ StatusIn(frames[j].steps, "analyze_after") = "completed"
            /\ \E a, b \in 1..(j - 1) :
                /\ Kinds[a] = <<"analyze_before", "completed">>
                /\ Kinds[b] = <<"analyze_after", "completed">>
    /\ Len(C22_StageFrames) <= Len(C22_StageOrder)
    /\ C22_StageFrames = SubSeq(C22_StageOrder, 1, Len(C22_StageFrames))

\* The after image completed first, and finalize ran.
C22_Witness ==
    /\ PositionOf(<<"finalize", "running">>) > 0
    /\ PositionOf(<<"analyze_after", "completed">>) > 0
    /\ PositionOf(<<"analyze_after", "completed">>)
            < PositionOf(<<"analyze_before", "completed">>)

\* The before image completed first, and finalize ran.
C22_BeforeFirst ==
    /\ PositionOf(<<"finalize", "running">>) > 0
    /\ PositionOf(<<"analyze_before", "completed">>) > 0
    /\ PositionOf(<<"analyze_before", "completed">>)
            < PositionOf(<<"analyze_after", "completed">>)

(***************************************************************************)
(* C23: in every interleaving of the two descents, the calls of one        *)
(* image's analysis (their number and thresholds), its position and its    *)
(* aggregated result are what the analysis yields when it runs alone on    *)
(* the responses the detector gave for that image, whatever the other      *)
(* analysis received and whenever it ran.                                  *)
(***************************************************************************)
RECURSIVE C23_RunAlone(_, _, _, _)
\* The invocation t fed the responses from the j-th on, one after another.
C23_RunAlone(t, responses, j, model) ==
    IF j > Len(responses) THEN t
    ELSE C23_RunAlone(HandleResponse(t, responses[j], model), responses, j + 1, model)

C23_NoInterference ==
    \A i \in Images :
        task[i].pc # "idle" =>
            LET alone == C23_RunAlone(StartedTask, call.responses[i], 1, TheModel)
            IN  /\ task[i].calls = alone.calls
                /\ task[i].pc = alone.pc
                /\ task[i].result = alone.result
                /\ task[i] = alone

\* Both descents ran interleaved: the after image got its first answer between
\* two answers for the before image, and both analyses returned a result.
C23_Witness ==
    /\ \A i \in Images : task[i].pc = "resolved"
    /\ Len(call.responses["before"]) >= 3
    /\ Len(call.responses["after"]) >= 2
    /\ PositionOf(<<"analyze_after", "completed">>)
            < PositionOf(<<"analyze_before", "completed">>)
    /\ task["before"].result[1].detected
    /\ task["after"].result[1].detected

(***************************************************************************)
(* C24: while no attempt of a descent has yielded a match, the retained    *)
(* imageWidth and imageHeight are those extracted from the first response  *)
(* whose extracted width is positive (0 and 0 before any such response),   *)
(* so a later non-matching response does not change them; and when the     *)
(* descent ends without a match the result carries exactly these.          *)
(***************************************************************************)
\* The responses recorded for image i, as extractData returns them.
C24_Extracted(i) ==
    [j \in DOMAIN call.responses[i] |-> extractData(call.responses[i][j])]

\* The first response of image i with dimensions, 0 when there is none.
C24_FirstWithDims(i) ==
    LET having == {j \in DOMAIN call.responses[i] : C24_Extracted(i)[j].imageWidth > 0}
    IN  IF having = {} THEN 0
        ELSE CHOOSE j \in having : \A q \in having : j <= q

C24_FirstDims(i) ==
    IF C24_FirstWithDims(i) = 0 THEN <<0, 0>>
    ELSE <<C24_Extracted(i)[C24_FirstWithDims(i)].imageWidth,
           C24_Extracted(i)[C24_FirstWithDims(i)].imageHeight>>

C24_NoMatchYet(i) ==
    /\ task[i].pc \in {"calling", "resolved"}
    /\ Len(task[i].matched) = Len(call.responses[i])
    /\ \A j \in DOMAIN task[i].matched : task[i].matched[j] = 0

C24_FirstSeenDimsRetained ==
    \A i \in Images :
        C24_NoMatchYet(i) =>
            /\ <<task[i].imageWidth, task[i].imageHeight>> = C24_FirstDims(i)
            /\ task[i].pc = "resolved" =>
                /\ ~task[i].result[1].detected
                /\ <<task[i].result[1].imageWidth, task[i].result[1].imageHeight>>
                        = C24_FirstDims(i)

\* A descent that ended without a match after a response without dimensions,
\* then one with dimensions, then one with other dimensions.
C24_Witness ==
    \E i \in Images :
        /\ C24_NoMatchYet(i)
        /\ task[i].pc = "resolved"
        /\ C24_FirstWithDims(i) = 2
        /\ \E j \in 3..Len(call.responses[i]) :
            /\ C24_Extracted(i)[j].imageWidth > 0
            /\ C24_Extracted(i)[j].imageWidth # C24_FirstDims(i)[1]

(***************************************************************************)
(* C28: when an attempt of the descent yields a match, the result's        *)
(* imageWidth and imageHeight are those extracted from the matching        *)
(* response, whatever an earlier non-matching attempt had retained.  The   *)
(* result's maskImage is the one extracted from the matching response when *)
(* the matched predictions have a total area other than zero; when their   *)
(* total area is zero the result has no maskImage.                         *)
(***************************************************************************)
\* Invocation i has returned after a match in its last attempt.
C28_Matched(i) ==
    /\ task[i].pc = "resolved"
    /\ Len(call.responses[i]) > 0
    /\ Len(task[i].matched) = Len(call.responses[i])
    /\ task[i].matched[Len(task[i].matched)] > 0

\* What extractData returns for the last response of image i.
C28_FromMatch(i) == extractData(call.responses[i][Len(call.responses[i])])

C28_DimsOfMatch(i) ==
    /\ task[i].result[1].imageWidth = C28_FromMatch(i).imageWidth
    /\ task[i].result[1].imageHeight = C28_FromMatch(i).imageHeight

\* The statement with the mask image in every result of a match.
C28_MatchOverwritesAll ==
    \A i \in Images :
        C28_Matched(i) =>
            /\ C28_DimsOfMatch(i)
            /\ task[i].result[1].maskImage = C28_FromMatch(i).maskImage

C28_MatchOverwrites ==
    \A i \in Images :
        C28_Matched(i) =>
            /\ C28_DimsOfMatch(i)
            /\ task[i].result[1].maskImage =
                    IF task[i].result[1].detected
                    THEN C28_FromMatch(i).maskImage
                    ELSE ""

\* A match with a mask after an attempt that had retained other dimensions.
C28_Witness ==
    \E i \in Images :
        /\ C28_Matched(i)
        /\ task[i].result[1].detected
        /\ task[i].result[1].maskImage = "mask"
        /\ C24_FirstWithDims(i) \in 1..(Len(call.responses[i]) - 1)
        /\ C24_FirstDims(i)[1] # task[i].result[1].imageWidth

(***************************************************************************)
(* C25: a box prediction with a negative width or height adds nothing to   *)
(* the total area: the result of the aggregation is the result for the     *)
(* list without such boxes as far as area and areaPercentage go, and       *)
(* neither is ever negative.                                               *)
(***************************************************************************)
C25_NegativeBox(p) ==
    ~(p.hasPoints /\ Len(p.points) >= 3) /\ (p.width < 0 \/ p.height < 0)

C25_NegativeExtentsCountZero ==
    AggregateReturned =>
        LET kept == SelectSeq(call.predictions, LAMBDA p : ~C25_NegativeBox(p))
            clamped == Accumulate(kept, 1, EmptyAcc).totalArea2
        IN  /\ Returned.area >= 0
            /\ Returned.areaPercentage >= 0
            /\ Returned.area = RoundDiv(clamped, PixelArea2)

(***************************************************************************)
(* C27: when the aggregation gets a list that is not empty and whose areas *)
(* sum to exactly zero (polygons of collinear points, boxes of zero        *)
(* extent, point lists of fewer than three points), its result is          *)
(* detected = false with area 0, areaPercentage 0 and confidence 0, no     *)
(* bounding box, and the imageWidth and imageHeight it was given.          *)
(***************************************************************************)
C27_ZeroAreaIsNoDetection ==
    (/\ AggregateReturned
     /\ Len(call.predictions) > 0
     /\ C15_SumOfAreas2(call.predictions) = 0)
    => /\ ~Returned.detected
       /\ Returned.area = 0
       /\ Returned.areaPercentage = 0
       /\ Returned.confidence = 0
       /\ Returned.boundingBox = <<>>
       /\ Returned.imageWidth = call.imageWidth
       /\ Returned.imageHeight = call.imageHeight

\* A box of zero width and a polygon of collinear points, both of high
\* confidence, in an image of 100 by 50.
C27_Witness ==
    /\ AggregateReturned
    /\ CalledWith(<<6, 9>>)
    /\ call.imageWidth = 100
    /\ call.imageHeight = 50
    /\ ~Returned.detected

(***************************************************************************)
(* C26: for a response without image dimensions and with at least one      *)
(* prediction, extractData returns as imageWidth the largest x + width/2   *)
(* of the box predictions and vertex x of the polygon predictions, over    *)
(* all predictions, times 1.1 and rounded up, and as imageHeight the same  *)
(* with y + height/2 and vertex y; a box centred at x = 0 takes part.      *)
(***************************************************************************)
\* Twice the right edges (box) and vertex abscissas (polygon) of prediction p.
C26_Rights2(p) ==
    IF p.hasPoints THEN {2 * p.points[j].x : j \in DOMAIN p.points}
    ELSE {2 * p.x + p.width}

C26_Bottoms2(p) ==
    IF p.hasPoints THEN {2 * p.points[j].y : j \in DOMAIN p.points}
    ELSE {2 * p.y + p.height}

C26_InfersFromAllPredictions ==
    (/\ ExtractDataReturned
     /\ call.result[1].image = NoImage
     /\ Len(call.result[1].predictions) > 0)
    => LET ps == call.result[1].predictions
           maxRight2 == C17_SetMax(UNION {C26_Rights2(ps[j]) : j \in DOMAIN ps})
           maxBottom2 == C17_SetMax(UNION {C26_Bottoms2(ps[j]) : j \in DOMAIN ps})
       IN  /\ Returned.imageWidth = CeilInflate(maxRight2)
           /\ Returned.imageHeight = CeilInflate(maxBottom2)

(***************************************************************************)
(* C29: in the page component at most one run of startAnalysis is under    *)
(* way at any time, whatever the user selects and clicks; and once         *)
(* restart() has run, result and error stay null and progress stays the    *)
(* initial state until a new analysis is started.                          *)
(***************************************************************************)
\* The runs of startAnalysis that have not returned.
C29_InFlight == {r \in DOMAIN page.runs : page.runs[r].pc # "returned"}

C29_OneRequestInFlight ==
    /\ Cardinality(C29_InFlight) <= 1
    /\ page.cleared =>
        /\ page.result = <<>>
        /\ page.error = <<>>
        /\ page.progress = initialProgressState

(***************************************************************************)
(* C30: whenever a run of startAnalysis reads an error frame from the      *)
(* stream, whatever its message, the run ends in the error state: error is *)
(* the frame's message, progress is the initial state, result is null,     *)
(* loading is false and the run has returned.                              *)
(***************************************************************************)
\* Run r reads the frame event in this step.
C30_Reads(r, event) ==
    /\ Len(page'.runs[r].got) = Len(page.runs[r].got) + 1
    /\ page'.runs[r].got[Len(page'.runs[r].got)] = event

C30_ErrorFrameEndsInError ==
    [][\A r \in DOMAIN page.runs : \A m \in ErrorMessages :
        C30_Reads(r, ErrorEvent(m)) =>
            /\ page'.error = <<m>>
            /\ page'.progress = initialProgressState
            /\ page'.result = <<>>
            /\ ~page'.loading
            /\ page'.runs[r].pc = "returned"]_vars

====
